---- MODULE Spec2Model ----
(***************************************************************************)
(* Model of src/api/index.js: an Express request-handler layer in front of *)
(* an Identity Service (firebase-admin auth) and a Document Store          *)
(* (Firestore collections `users` and `projects`).                         *)
(*                                                                         *)
(* Every handler is an async function: it runs synchronously up to an      *)
(* `await`, and resumes when the awaited external call resolves or         *)
(* rejects.  A request in flight is a slot of `reqs`; its `pc` names the   *)
(* external call it is waiting for.  One action resolves that call (the    *)
(* call takes effect on the store at that step) and runs the handler's     *)
(* synchronous code up to the next await or to the response.  A rejected   *)
(* call jumps to the handler's catch block.                                *)
(*                                                                         *)
(* Encoding of JavaScript values:                                          *)
(*   - request fields are strings; Absent is `undefined`, "" the empty     *)
(*     string, NonString a truthy value that is not a string (a number);   *)
(*   - Identity-Service uids are 1..MaxUsers; NoUserId (0) is an undefined *)
(*     userId;                                                             *)
(*   - Date.now() is `now`; timestamps are 1..MaxTime;                     *)
(*   - the id `project_<t>` is the number t; `user_<t>` is SyntheticId(t), *)
(*     `mock_token_<t>` is MockToken(t).                                   *)
(***************************************************************************)
EXTENDS Integers, Sequences, FiniteSets, TLC

VARIABLES firebaseInitialized, authUsers, users, projects, now, reqs, anyFailed

vars == <<firebaseInitialized, authUsers, users, projects, now, reqs, anyFailed>>

\* Bounds of the model.
MaxReq == 2
MaxUsers == 2
MaxTime == 2
MaxProjects == 2

Slots == 1..MaxReq
Uids == 1..MaxUsers

\* ---------------------------------------------------------------- values

Absent == "undefined"
NonString == "<number>"
NoUserId == 0
NoTime == 0
NoError == "<no error>"
NoCall == "<none>"

\* JavaScript truthiness of a request field (`!email` at lines 90 and 179).
Truthy(v) ==
    v \notin {Absent, ""}

IsString(v) ==
    v \notin {Absent, NonString}

\* email.split('@')[0] (lines 193, 210), for the strings of the model.
LocalPart(email) ==
    CASE email = "a@x" -> "a"
      [] email = "b@x" -> "b"
      [] OTHER -> ""

NoId == [kind |-> "none", n |-> 0]
AuthId(u) == [kind |-> "auth", n |-> u]
\* 'user_' + Date.now()
SyntheticId(t) == [kind |-> "user_", n |-> t]

NoToken == [kind |-> "none", sub |-> NoId, n |-> 0]
\* 'mock_token_' + Date.now()
MockToken(t) == [kind |-> "mock_token_", sub |-> NoId, n |-> t]
\* admin.auth().createCustomToken(uid): a token whose subject is uid.
CustomToken(id) == [kind |-> "custom", sub |-> id, n |-> 0]
\* An ID token a client obtained for identity u, and a string that is no token.
IdToken(u) == [kind |-> "idToken", sub |-> AuthId(u), n |-> 0]
GarbageToken == [kind |-> "garbage", sub |-> NoId, n |-> 0]

\* ------------------------------------------------------------- responses

NoResp ==
    [status |-> 0, success |-> "absent", error |-> NoError, payload |-> {},
     uid |-> NoId, email |-> Absent, name |-> Absent, token |-> NoToken,
     totalProjects |-> 0, count |-> 0]

\* res.status(s).json({success: false, error: msg})
ErrorResp(s, msg) ==
    [NoResp EXCEPT !.status = s, !.success = "false", !.error = msg]

\* res.status(200).json({status: 'online', message, timestamp, firebaseStatus, endpoints})
HealthResp ==
    [NoResp EXCEPT !.status = 200,
                   !.payload = {"status", "message", "timestamp",
                                "firebaseStatus", "endpoints"}]

\* The mock-mode responses of register (101-113) and login (190-202).
MockResp(email, name, t) ==
    [NoResp EXCEPT !.status = 200, !.success = "true",
                   !.payload = {"user", "token", "message"},
                   !.uid = SyntheticId(t), !.email = email, !.name = name,
                   !.token = MockToken(t)]

\* RegisterResp with the name taken from the wrong field of the record.
RegisterRespNameFromEmail(uid, authRec, token) ==
    [NoResp EXCEPT !.status = 200, !.success = "true",
                   !.payload = {"user", "token", "message"},
                   !.uid = AuthId(uid), !.email = authRec.email,
                   !.name = authRec.email, !.token = token]

\* The response of a successful registration (149-159): the Identity
\* Service's record (uid, email, displayName) and the custom token.
RegisterResp(uid, authRec, token) ==
    [NoResp EXCEPT !.status = 200, !.success = "true",
                   !.payload = {"user", "token", "message"},
                   !.uid = AuthId(uid), !.email = authRec.email,
                   !.name = authRec.displayName, !.token = token]

\* The response of a login while the store is available (216-221).
LoginResp(email, t, token) ==
    [NoResp EXCEPT !.status = 200, !.success = "true",
                   !.payload = {"user", "token", "message"},
                   !.uid = SyntheticId(t), !.email = email,
                   !.name = LocalPart(email), !.token = token]

\* {success: true, user: <fields of the stored record>} (264-267, 435-446, 477-481)
UserResp(rec, keys) ==
    [NoResp EXCEPT !.status = 200, !.success = "true", !.payload = keys,
                   !.uid = AuthId(rec.uid), !.email = rec.email,
                   !.name = rec.name, !.totalProjects = rec.totalProjects]

\* {success: true, project: projectData, message} (321-325)
ProjectResp(p) ==
    [NoResp EXCEPT !.status = 200, !.success = "true",
                   !.payload = {"project", "message"},
                   !.uid = AuthId(p.userId), !.count = p.id]

\* {success: true, projects|users: list, count: list.length} (356-360, 390-394)
ListResp(key, n) ==
    [NoResp EXCEPT !.status = 200, !.success = "true",
                   !.payload = {key, "count"}, !.count = n]

\* ---------------------------------------------------------------- records

\* userData of registration (127-140).
NewUserData(uid, email, name, t) ==
    [uid |-> uid, email |-> email, name |-> name, createdAt |-> t,
     lastLogin |-> t, role |-> "user", totalProjects |-> 0,
     settings |-> [theme |-> "light", notifications |-> TRUE],
     projects |-> <<>>, updatedAt |-> NoTime]

\* projectData of project creation (298-310); description || '' is ''.
NewProjectData(userId, t) ==
    [id |-> t, userId |-> userId, name |-> "P", type |-> "web",
     description |-> "", createdAt |-> t, updatedAt |-> t,
     status |-> "active", collaborators |-> <<>>, tasks |-> <<>>]

\* userDoc.exists (243, 290, 426)
UserDocExists(store, userId) ==
    userId \in DOMAIN store

\* FieldValue.arrayUnion(x): appends x unless the array already holds it.
ArrayUnion(arr, x) ==
    IF \E k \in 1..Len(arr) : arr[k] = x THEN arr ELSE Append(arr, x)

\* FieldValue.increment(1)
Increment(n) ==
    n + 1

\* The update of lines 316-319 applied to a user record.
AddProjectToUser(rec, projectId) ==
    [rec EXCEPT !.totalProjects = Increment(rec.totalProjects),
                !.projects = ArrayUnion(rec.projects, projectId)]

\* ---------------------------------------------------------------- requests

IdleReq ==
    [op |-> "idle", pc |-> "idle", email |-> Absent, password |-> Absent,
     name |-> Absent, userId |-> NoUserId, token |-> NoToken, body |-> {},
     updates |-> {}, uid |-> NoUserId, ts |-> NoTime, calls |-> <<>>,
     failedCall |-> NoCall, resp |-> NoResp]

Free(i) ==
    reqs[i].pc \in {"idle", "done"}

\* A request that has been answered.
Respond(r, resp) ==
    [r EXCEPT !.pc = "done", !.resp = resp]

\* A request that issues the external call c and awaits it.
Await(r, c) ==
    [r EXCEPT !.pc = c, !.calls = Append(r.calls, c)]

\* The awaited call rejected: control is in the catch block, which answers.
Caught(r, resp) ==
    [r EXCEPT !.pc = "done", !.failedCall = r.pc, !.resp = resp]

Init ==
    /\ firebaseInitialized \in BOOLEAN
    /\ authUsers = <<>>
    /\ users = <<>>
    /\ projects = <<>>
    /\ now = 1
    /\ reqs = [i \in Slots |-> IdleReq]
    /\ anyFailed = FALSE

\* The clock advances between any two steps.
Tick ==
    /\ now < MaxTime
    /\ now' = now + 1
    /\ UNCHANGED <<firebaseInitialized, authUsers, users, projects, reqs, anyFailed>>

\* ------------------------------------------------------------ catch blocks

\* CatchResp answering like the health check's catch block (72-78):
\* {error, status: 'error'}, with no success field.
CatchRespNoSuccess(op, msg) ==
    [NoResp EXCEPT !.status = 500, !.error = msg, !.payload = {"status"}]

\* CatchResp passing error.message through, as the handler of 495-501 does.
CatchRespMessage(op, msg) ==
    ErrorResp(500, msg)

\* What each handler's catch block answers (161-167, 223-229, 269-275,
\* 327-333, 362-368, 396-402, 448-454, 483-489); msg is error.message.
CatchResp(op, msg) ==
    CASE op = "register" -> ErrorResp(400, msg)
      [] op = "login" -> ErrorResp(401, "Invalid credentials")
      [] op = "getUser" -> ErrorResp(500, "Server error")
      [] op = "createProject" -> ErrorResp(500, "Failed to create project")
      [] op = "listProjects" -> ErrorResp(500, "Failed to fetch projects")
      [] op = "listUsers" -> ErrorResp(500, "Failed to fetch users")
      [] op = "verify" -> ErrorResp(401, "Invalid or expired token")
      [] OTHER -> ErrorResp(500, "Failed to update profile")

\* The external call a request awaits fails (the service is unreachable or
\* answers with an error): the call has no effect and the catch block answers.
ExternalFailure(i) ==
    /\ reqs[i].pc \notin {"idle", "done"}
    /\ reqs' = [reqs EXCEPT ![i] =
            Caught(reqs[i], CatchResp(reqs[i].op, "service unavailable"))]
    /\ anyFailed' = TRUE
    /\ UNCHANGED <<firebaseInitialized, authUsers, users, projects, now>>

\* -------------------------------------------------------------- register

\* RegisterValid without the check of name.
RegisterValidNoName(email, password, name) ==
    Truthy(email) /\ Truthy(password)

\* The field check of line 90.
RegisterValid(email, password, name) ==
    Truthy(email) /\ Truthy(password) /\ Truthy(name)

\* What admin.auth().createUser rejects: a malformed or taken email.
CreateUserRejects(email) ==
    \/ ~IsString(email)
    \/ \E u \in DOMAIN authUsers : authUsers[u].email = email

\* error.message of a rejected createUser.
CreateUserMessage(email) ==
    IF ~IsString(email) THEN "auth/invalid-email" ELSE "auth/email-already-exists"

\* db.collection(c).doc(id).set(data): creates or overwrites the document.
DocSet(store, id, data) ==
    [k \in DOMAIN store \cup {id} |-> IF k = id THEN data ELSE store[k]]

\* POST /api/register, lines 84-117: validation, mock mode, createUser issued.
RegisterStart(i, email, password, name) ==
    /\ Free(i)
    /\ LET r == [IdleReq EXCEPT !.op = "register", !.email = email,
                                !.password = password, !.name = name]
       IN reqs' = [reqs EXCEPT ![i] =
            IF ~RegisterValid(email, password, name)
            THEN Respond(r, ErrorResp(400, "Missing required fields: email, password, name"))
            ELSE IF ~firebaseInitialized
            THEN Respond(r, MockResp(email, name, now))
            ELSE Await(r, "auth.createUser")]
    /\ UNCHANGED <<firebaseInitialized, authUsers, users, projects, now, anyFailed>>

\* Lines 117-142: createUser resolves with a fresh uid, userData is built
\* and the set is issued; or createUser rejects and 161-167 answer 400.
RegisterCreateUserDone(i) ==
    /\ reqs[i].op = "register"
    /\ reqs[i].pc = "auth.createUser"
    /\ \/ /\ ~CreateUserRejects(reqs[i].email)
          /\ Len(authUsers) < MaxUsers
          /\ authUsers' = Append(authUsers,
                    [email |-> reqs[i].email, displayName |-> reqs[i].name])
          /\ reqs' = [reqs EXCEPT ![i] =
                Await([reqs[i] EXCEPT !.uid = Len(authUsers) + 1, !.ts = now],
                      "users.set")]
          /\ UNCHANGED anyFailed
       \/ /\ CreateUserRejects(reqs[i].email)
          /\ reqs' = [reqs EXCEPT ![i] =
                Caught(reqs[i], CatchResp("register", CreateUserMessage(reqs[i].email)))]
          /\ anyFailed' = TRUE
          /\ UNCHANGED authUsers
    /\ UNCHANGED <<firebaseInitialized, users, projects, now>>

\* Lines 142-147: the user document is written, the token is requested.
RegisterSetDone(i) ==
    /\ reqs[i].op = "register"
    /\ reqs[i].pc = "users.set"
    /\ users' = DocSet(users, reqs[i].uid,
                    NewUserData(reqs[i].uid, reqs[i].email, reqs[i].name, reqs[i].ts))
    /\ reqs' = [reqs EXCEPT ![i] = Await(reqs[i], "auth.createCustomToken")]
    /\ UNCHANGED <<firebaseInitialized, authUsers, projects, now, anyFailed>>

\* Lines 147-159: the token is issued and the registration answered.
RegisterTokenDone(i) ==
    /\ reqs[i].op = "register"
    /\ reqs[i].pc = "auth.createCustomToken"
    /\ reqs' = [reqs EXCEPT ![i] =
            Respond(reqs[i], RegisterResp(reqs[i].uid, authUsers[reqs[i].uid],
                                          CustomToken(AuthId(reqs[i].uid))))]
    /\ UNCHANGED <<firebaseInitialized, authUsers, users, projects, now, anyFailed>>

\* ----------------------------------------------------------------- login

\* The field check of line 179.
LoginValid(email, password) ==
    Truthy(email) /\ Truthy(password)

\* POST /api/login, lines 173-214.  email.split (193, 210) throws a
\* TypeError when email is not a string, and 223-229 answer 401.
LoginStart(i, email, password) ==
    /\ Free(i)
    /\ LET r == [IdleReq EXCEPT !.op = "login", !.email = email,
                                !.password = password]
       IN reqs' = [reqs EXCEPT ![i] =
            IF ~LoginValid(email, password)
            THEN Respond(r, ErrorResp(400, "Missing email or password"))
            ELSE IF ~IsString(email)
            THEN Respond(r, CatchResp("login", "email.split is not a function"))
            ELSE IF ~firebaseInitialized
            THEN Respond(r, MockResp(email, LocalPart(email), now))
            ELSE Await([r EXCEPT !.ts = now], "auth.createCustomToken")]
    /\ UNCHANGED <<firebaseInitialized, authUsers, users, projects, now, anyFailed>>

\* Lines 214-221: the token for the synthetic id is issued.
LoginTokenDone(i) ==
    /\ reqs[i].op = "login"
    /\ reqs[i].pc = "auth.createCustomToken"
    /\ reqs' = [reqs EXCEPT ![i] =
            Respond(reqs[i], LoginResp(reqs[i].email, reqs[i].ts,
                                       CustomToken(SyntheticId(reqs[i].ts))))]
    /\ UNCHANGED <<firebaseInitialized, authUsers, users, projects, now, anyFailed>>

\* -------------------------------------------------------- create project

\* POST /api/projects, lines 281-288.  doc(undefined) throws before any
\* call is made, and 327-333 answer 500.
CreateProjectStart(i, userId) ==
    /\ Free(i)
    /\ userId \in DOMAIN users => users[userId].totalProjects < MaxProjects
    /\ LET r == [IdleReq EXCEPT !.op = "createProject", !.userId = userId]
       IN reqs' = [reqs EXCEPT ![i] =
            IF userId = NoUserId
            THEN Respond(r, CatchResp("createProject", "documentPath must be a non-empty string"))
            ELSE Await(r, "users.get")]
    /\ UNCHANGED <<firebaseInitialized, authUsers, users, projects, now, anyFailed>>

\* CreateProjectGetDone without the check of userDoc.exists.
CreateProjectGetDoneNoCheck(i) ==
    /\ reqs[i].op = "createProject"
    /\ reqs[i].pc = "users.get"
    /\ firebaseInitialized
    /\ reqs' = [reqs EXCEPT ![i] = Await([reqs[i] EXCEPT !.ts = now], "projects.set")]
    /\ UNCHANGED <<firebaseInitialized, authUsers, users, projects, now, anyFailed>>

\* Lines 288-313: the user lookup resolves; 404 when there is no record,
\* else the project id is taken from the clock and the project write issued.
CreateProjectGetDone(i) ==
    /\ reqs[i].op = "createProject"
    /\ reqs[i].pc = "users.get"
    /\ firebaseInitialized
    /\ reqs' = [reqs EXCEPT ![i] =
            IF ~UserDocExists(users, reqs[i].userId)
            THEN Respond(reqs[i], ErrorResp(404, "User not found"))
            ELSE Await([reqs[i] EXCEPT !.ts = now], "projects.set")]
    /\ UNCHANGED <<firebaseInitialized, authUsers, users, projects, now, anyFailed>>

\* Lines 313-316: the project document is written, the user update issued.
CreateProjectSetDone(i) ==
    /\ reqs[i].op = "createProject"
    /\ reqs[i].pc = "projects.set"
    /\ projects' = DocSet(projects, reqs[i].ts,
                          NewProjectData(reqs[i].userId, reqs[i].ts))
    /\ reqs' = [reqs EXCEPT ![i] = Await(reqs[i], "users.update")]
    /\ UNCHANGED <<firebaseInitialized, authUsers, users, now, anyFailed>>

\* Lines 316-325: the counter and the id list are updated, then the answer.
CreateProjectUpdateDone(i) ==
    /\ reqs[i].op = "createProject"
    /\ reqs[i].pc = "users.update"
    /\ users' = [users EXCEPT ![reqs[i].userId] = AddProjectToUser(@, reqs[i].ts)]
    /\ reqs' = [reqs EXCEPT ![i] =
            Respond(reqs[i], ProjectResp(NewProjectData(reqs[i].userId, reqs[i].ts)))]
    /\ UNCHANGED <<firebaseInitialized, authUsers, projects, now, anyFailed>>

\* ----------------------------------------------------------- update user

\* The request bodies of PUT /api/user/:userId the model sends: the set of
\* fields a body names.  Each field carries the value of BodyValue.
UpdateBodies ==
    { {}, {"name"}, {"totalProjects"}, {"uid", "email", "createdAt"},
      {"uid", "email", "createdAt", "name", "totalProjects"} }

BodyValue ==
    [uid |-> NoUserId, email |-> "evil@x", createdAt |-> NoTime,
     name |-> "Zed", totalProjects |-> 0]

\* StripProtected without the delete of email.
StripProtectedKeepsEmail(body) ==
    body \ {"uid", "createdAt"}

\* The deletes of lines 466-468.
StripProtected(body) ==
    body \ {"uid", "email", "createdAt"}

\* doc.update(updates) on a stored record: the named fields are replaced,
\* the others kept; updates.updatedAt is the stamp of line 470.
ApplyUpdates(rec, updates, t) ==
    [f \in DOMAIN rec |->
        IF f = "updatedAt" THEN t
        ELSE IF f \in updates THEN BodyValue[f]
        ELSE rec[f]]

\* PUT /api/user/:userId, lines 460-472.
UpdateUserStart(i, userId, body) ==
    /\ Free(i)
    /\ LET r == [IdleReq EXCEPT !.op = "updateUser", !.userId = userId,
                                !.body = body, !.updates = StripProtected(body),
                                !.ts = now]
       IN reqs' = [reqs EXCEPT ![i] = Await(r, "users.update")]
    /\ UNCHANGED <<firebaseInitialized, authUsers, users, projects, now, anyFailed>>

\* Lines 472-475: the merge is applied and the record read back; update
\* rejects when the document does not exist, and 483-489 answer 500.
UpdateUserUpdateDone(i) ==
    /\ reqs[i].op = "updateUser"
    /\ reqs[i].pc = "users.update"
    /\ firebaseInitialized
    /\ \/ /\ UserDocExists(users, reqs[i].userId)
          /\ users' = [users EXCEPT ![reqs[i].userId] =
                            ApplyUpdates(@, reqs[i].updates, reqs[i].ts)]
          /\ reqs' = [reqs EXCEPT ![i] = Await(reqs[i], "users.get")]
          /\ UNCHANGED anyFailed
       \/ /\ ~UserDocExists(users, reqs[i].userId)
          /\ reqs' = [reqs EXCEPT ![i] =
                Caught(reqs[i], CatchResp("updateUser", "NOT_FOUND"))]
          /\ anyFailed' = TRUE
          /\ UNCHANGED users
    /\ UNCHANGED <<firebaseInitialized, authUsers, projects, now>>

\* Lines 475-481: the full record is returned.
UpdateUserGetDone(i) ==
    /\ reqs[i].op = "updateUser"
    /\ reqs[i].pc = "users.get"
    /\ reqs' = [reqs EXCEPT ![i] =
            Respond(reqs[i], UserResp(users[reqs[i].userId], {"user", "message"}))]
    /\ UNCHANGED <<firebaseInitialized, authUsers, users, projects, now, anyFailed>>

\* ------------------------------------------------------ read-only endpoints

\* GET /, lines 56-71; nothing in the try block can throw, so the catch of
\* 72-78 (which answers {error, status: 'error'}) is never entered.
Health(i) ==
    /\ Free(i)
    /\ reqs' = [reqs EXCEPT ![i] = Respond([IdleReq EXCEPT !.op = "health"], HealthResp)]
    /\ UNCHANGED <<firebaseInitialized, authUsers, users, projects, now, anyFailed>>

\* GET /api/user/:userId, lines 235-241.
GetUserStart(i, userId) ==
    /\ Free(i)
    /\ reqs' = [reqs EXCEPT ![i] =
            Await([IdleReq EXCEPT !.op = "getUser", !.userId = userId], "users.get")]
    /\ UNCHANGED <<firebaseInitialized, authUsers, users, projects, now, anyFailed>>

\* Lines 241-267.
GetUserDone(i) ==
    /\ reqs[i].op = "getUser"
    /\ reqs[i].pc = "users.get"
    /\ firebaseInitialized
    /\ reqs' = [reqs EXCEPT ![i] =
            IF ~UserDocExists(users, reqs[i].userId)
            THEN Respond(reqs[i], ErrorResp(404, "User not found"))
            ELSE Respond(reqs[i], UserResp(users[reqs[i].userId], {"user"}))]
    /\ UNCHANGED <<firebaseInitialized, authUsers, users, projects, now, anyFailed>>

\* where('userId', '==', userId): the ids of the matching projects.
ProjectsOf(userId) ==
    {p \in DOMAIN projects : projects[p].userId = userId}

\* GET /api/user/:userId/projects, lines 339-349.
ListProjectsStart(i, userId) ==
    /\ Free(i)
    /\ reqs' = [reqs EXCEPT ![i] =
            Await([IdleReq EXCEPT !.op = "listProjects", !.userId = userId],
                  "projects.query")]
    /\ UNCHANGED <<firebaseInitialized, authUsers, users, projects, now, anyFailed>>

\* Lines 349-360.
ListProjectsDone(i) ==
    /\ reqs[i].op = "listProjects"
    /\ reqs[i].pc = "projects.query"
    /\ firebaseInitialized
    /\ reqs' = [reqs EXCEPT ![i] =
            Respond(reqs[i], ListResp("projects", Cardinality(ProjectsOf(reqs[i].userId))))]
    /\ UNCHANGED <<firebaseInitialized, authUsers, users, projects, now, anyFailed>>

\* GET /api/users, lines 374-376.
ListUsersStart(i) ==
    /\ Free(i)
    /\ reqs' = [reqs EXCEPT ![i] =
            Await([IdleReq EXCEPT !.op = "listUsers"], "users.list")]
    /\ UNCHANGED <<firebaseInitialized, authUsers, users, projects, now, anyFailed>>

\* Lines 376-394.
ListUsersDone(i) ==
    /\ reqs[i].op = "listUsers"
    /\ reqs[i].pc = "users.list"
    /\ firebaseInitialized
    /\ reqs' = [reqs EXCEPT ![i] =
            Respond(reqs[i], ListResp("users", Cardinality(DOMAIN users)))]
    /\ UNCHANGED <<firebaseInitialized, authUsers, users, projects, now, anyFailed>>

\* The tokens a verify request carries: none, a string that is no token,
\* or the ID token of an identity the Identity Service knows.
VerifyTokens ==
    {NoToken, GarbageToken} \cup {IdToken(u) : u \in DOMAIN authUsers}

\* POST /api/verify, lines 408-420.
VerifyStart(i, token) ==
    /\ Free(i)
    /\ LET r == [IdleReq EXCEPT !.op = "verify", !.token = token]
       IN reqs' = [reqs EXCEPT ![i] =
            IF token = NoToken
            THEN Respond(r, ErrorResp(401, "No token provided"))
            ELSE Await(r, "auth.verifyIdToken")]
    /\ UNCHANGED <<firebaseInitialized, authUsers, users, projects, now, anyFailed>>

\* Lines 420-424: the token is decoded and the user looked up; a string
\* that is no ID token is rejected, and 448-454 answer 401.
VerifyTokenDone(i) ==
    /\ reqs[i].op = "verify"
    /\ reqs[i].pc = "auth.verifyIdToken"
    /\ firebaseInitialized
    /\ \/ /\ reqs[i].token.kind = "idToken"
          /\ reqs' = [reqs EXCEPT ![i] =
                Await([reqs[i] EXCEPT !.uid = reqs[i].token.sub.n], "users.get")]
          /\ UNCHANGED anyFailed
       \/ /\ reqs[i].token.kind # "idToken"
          /\ reqs' = [reqs EXCEPT ![i] =
                Caught(reqs[i], CatchResp("verify", "auth/argument-error"))]
          /\ anyFailed' = TRUE
    /\ UNCHANGED <<firebaseInitialized, authUsers, users, projects, now>>

\* Lines 424-446.
VerifyGetDone(i) ==
    /\ reqs[i].op = "verify"
    /\ reqs[i].pc = "users.get"
    /\ reqs' = [reqs EXCEPT ![i] =
            IF ~UserDocExists(users, reqs[i].uid)
            THEN Respond(reqs[i], ErrorResp(404, "User not found"))
            ELSE Respond(reqs[i], UserResp(users[reqs[i].uid], {"user"}))]
    /\ UNCHANGED <<firebaseInitialized, authUsers, users, projects, now, anyFailed>>

\* The error handler of lines 495-501: a request whose body express.json()
\* cannot parse never reaches a route.
FaultHandler(i) ==
    /\ Free(i)
    /\ reqs' = [reqs EXCEPT ![i] =
            Respond([IdleReq EXCEPT !.op = "fault"],
                    ErrorResp(500, "Unexpected token in JSON"))]
    /\ UNCHANGED <<firebaseInitialized, authUsers, users, projects, now, anyFailed>>

\* ------------------------------------------------------------ the system

EmailInputs == {Absent, "", "a@x", NonString}
PasswordInputs == {Absent, "", "pw"}
NameInputs == {Absent, "", "Al"}

\* One request at a time, over every endpoint.
Next ==
    \/ Tick
    \/ ExternalFailure(1)
    \/ Health(1)
    \/ \E e \in EmailInputs, p \in PasswordInputs, n \in NameInputs :
            RegisterStart(1, e, p, n)
    \/ RegisterCreateUserDone(1)
    \/ RegisterSetDone(1)
    \/ RegisterTokenDone(1)
    \/ \E e \in EmailInputs, p \in PasswordInputs : LoginStart(1, e, p)
    \/ LoginTokenDone(1)
    \/ \E u \in Uids : GetUserStart(1, u)
    \/ GetUserDone(1)
    \/ \E u \in Uids \cup {NoUserId} : CreateProjectStart(1, u)
    \/ CreateProjectGetDone(1)
    \/ CreateProjectSetDone(1)
    \/ CreateProjectUpdateDone(1)
    \/ \E u \in Uids : ListProjectsStart(1, u)
    \/ ListProjectsDone(1)
    \/ ListUsersStart(1)
    \/ ListUsersDone(1)
    \/ \E t \in VerifyTokens : VerifyStart(1, t)
    \/ VerifyTokenDone(1)
    \/ VerifyGetDone(1)
    \/ \E u \in Uids, b \in UpdateBodies : UpdateUserStart(1, u, b)
    \/ UpdateUserUpdateDone(1)
    \/ UpdateUserGetDone(1)
    \/ FaultHandler(1)

Spec == Init /\ [][Next]_vars

\* Registration and project creation, several requests in flight at once,
\* interleaved at their awaits.
NextConcurrent ==
    \/ Tick
    \/ \E i \in Slots :
        \/ ExternalFailure(i)
        \/ \E e \in {"a@x", "b@x"} : RegisterStart(i, e, "pw", "Al")
        \/ RegisterCreateUserDone(i)
        \/ RegisterSetDone(i)
        \/ RegisterTokenDone(i)
        \/ \E u \in Uids \cup {NoUserId} : CreateProjectStart(i, u)
        \/ CreateProjectGetDone(i)
        \/ CreateProjectSetDone(i)
        \/ CreateProjectUpdateDone(i)

SpecConcurrent == Init /\ [][NextConcurrent]_vars

\* ----------------------------------------------------------------- claims

Range(seq) ==
    {seq[k] : k \in 1..Len(seq)}

\* Request i is answered in this step.
AnsweredNow(i) ==
    reqs'[i].pc = "done" /\ reqs'[i] # reqs[i]

\* Request i is answered in this step by its success path.
SucceedsNow(i) ==
    AnsweredNow(i) /\ reqs'[i].resp.success = "true"

\* C1: a Create project request for an existing user whose two writes both
\* succeed raises that user's totalProjects by exactly 1, adds exactly one id
\* that was not in the user's projects list, and the stored project's userId
\* is the request's userId, whatever other Create project requests do.
C1_CreateAddsOneNewProject ==
    [][\A i \in Slots :
        (reqs[i].op = "createProject" /\ reqs[i].pc = "users.update" /\ SucceedsNow(i))
        => LET u == reqs[i].userId
               pid == reqs[i].ts
           IN /\ users'[u].totalProjects = users[u].totalProjects + 1
              /\ Len(users'[u].projects) = Len(users[u].projects) + 1
              /\ pid \notin Range(users[u].projects)
              /\ pid \in Range(users'[u].projects)
              /\ projects'[pid].userId = u]_vars

\* No Create project request is between its project write and its user update.
NoCreateBetweenWrites ==
    \A i \in Slots : ~(reqs[i].op = "createProject" /\ reqs[i].pc = "users.update")

\* C2: when no external call has failed and no Create project request is
\* between its two writes, every user's totalProjects equals the number of
\* ids in its projects list.
C2_CounterEqualsListLength ==
    (~anyFailed /\ NoCreateBetweenWrites)
    => \A u \in DOMAIN users : users[u].totalProjects = Len(users[u].projects)

\* C10: without external-call failures, every project's userId names a user
\* record, and every id in a user's projects list (only Create project adds
\* ids) names a stored project whose userId is that user.
C10_ReferentialIntegrity ==
    ~anyFailed
    => /\ \A p \in DOMAIN projects : projects[p].userId \in DOMAIN users
       /\ \A u \in DOMAIN users : \A p \in Range(users[u].projects) :
            p \in DOMAIN projects /\ projects[p].userId = u

\* The request in slot i, a Create project whose userId has no user record,
\* takes a step.
NoRecordCreateSteps(i) ==
    /\ reqs'[i] # reqs[i]
    /\ reqs'[i].op = "createProject"
    /\ reqs'[i].userId \notin DOMAIN users

\* C3 as claimed: a Create project request whose userId has no user record
\* is answered 404 with success=false, and leaves both collections unchanged.
C3_NoRecordAlways404 ==
    [][\A i \in Slots :
        NoRecordCreateSteps(i)
        => /\ users' = users
           /\ projects' = projects
           /\ AnsweredNow(i)
              => reqs'[i].resp.status = 404 /\ reqs'[i].resp.success = "false"]_vars

\* C3 amended: a Create project request whose userId has no user record
\* leaves both collections unchanged and is answered with success=false: with
\* 404 'User not found' when the user lookup was made and answered, with 500
\* when the lookup failed or (the userId missing) was never made.
C3_NoRecord404WhenLookupAnswers ==
    [][\A i \in Slots :
        NoRecordCreateSteps(i)
        => /\ users' = users
           /\ projects' = projects
           /\ AnsweredNow(i)
              => /\ reqs'[i].resp.success = "false"
                 /\ IF reqs'[i].calls = <<"users.get">> /\ reqs'[i].failedCall = NoCall
                    THEN reqs'[i].resp.status = 404 /\ reqs'[i].resp.error = "User not found"
                    ELSE reqs'[i].resp.status = 500]_vars

C3_Witness ==
    \E i \in Slots :
        /\ reqs[i].op = "createProject"
        /\ reqs[i].pc = "done"
        /\ reqs[i].userId \in Uids \ DOMAIN users
        /\ reqs[i].calls = <<"users.get">>
        /\ reqs[i].resp.status = 404
        /\ projects = <<>>

\* C4: a Register request with email, password or name absent or empty is
\* answered 400 with success=false and has made no Identity Service call and
\* no Document Store call, whatever the store-availability flag.
C4_MissingFieldRejected ==
    \A i \in Slots :
        (/\ reqs[i].op = "register"
         /\ reqs[i].pc = "done"
         /\ \E v \in {reqs[i].email, reqs[i].password, reqs[i].name} : v \in {Absent, ""})
        => /\ reqs[i].resp.status = 400
           /\ reqs[i].resp.success = "false"
           /\ reqs[i].calls = <<>>

C4_Witness ==
    \E i \in Slots :
        /\ firebaseInitialized
        /\ reqs[i].op = "register"
        /\ reqs[i].pc = "done"
        /\ reqs[i].email = "a@x" /\ reqs[i].password = "pw" /\ reqs[i].name = ""
        /\ reqs[i].resp.status = 400

\* C5: with the store available and every external call answered, a Register
\* request with email, password and name writes, under a new uid, a record
\* with role 'user', totalProjects 0 and an empty projects list, and is
\* answered with success, the request's email and name, and a token issued
\* for that uid; the record is still so when the answer is given.
C5_RegistrationCreatesUser ==
    [][\A i \in Slots :
        reqs[i].op = "register"
        => LET uid == reqs[i].uid
               Fresh(rec) == /\ rec.uid = uid
                             /\ rec.email = reqs[i].email
                             /\ rec.name = reqs[i].name
                             /\ rec.role = "user"
                             /\ rec.totalProjects = 0
                             /\ rec.projects = <<>>
           IN /\ (reqs[i].pc = "users.set" /\ reqs'[i].pc = "auth.createCustomToken")
                 => uid \notin DOMAIN users /\ uid \in DOMAIN users' /\ Fresh(users'[uid])
              /\ (reqs[i].pc = "auth.createCustomToken" /\ SucceedsNow(i))
                 => /\ firebaseInitialized
                    /\ reqs'[i].resp.status = 200
                    /\ reqs'[i].resp.uid = AuthId(uid)
                    /\ reqs'[i].resp.email = reqs[i].email
                    /\ reqs'[i].resp.name = reqs[i].name
                    /\ reqs'[i].resp.token = CustomToken(AuthId(uid))
                    /\ uid \in DOMAIN users' /\ Fresh(users'[uid])]_vars

C5_Witness ==
    \E i \in Slots :
        /\ firebaseInitialized
        /\ reqs[i].op = "register"
        /\ reqs[i].pc = "done"
        /\ reqs[i].resp.status = 200
        /\ reqs[i].resp.token.kind = "custom"
        /\ reqs[i].uid \in DOMAIN users

\* C6: with the store-availability flag false, every Register or Login
\* request that passes field validation is answered 200 with success=true, a
\* 'user_<timestamp>' id and a 'mock_token_<timestamp>' token, and has made
\* no Identity Service or Document Store call.
C6_MockModeAlwaysSucceeds ==
    ~firebaseInitialized
    => \A i \in Slots :
        (/\ reqs[i].pc = "done"
         /\ \/ /\ reqs[i].op = "register"
               /\ \A v \in {reqs[i].email, reqs[i].password, reqs[i].name} : v \notin {Absent, ""}
            \/ /\ reqs[i].op = "login"
               /\ \A v \in {reqs[i].email, reqs[i].password} : v \notin {Absent, ""})
        => /\ reqs[i].resp.status = 200
           /\ reqs[i].resp.success = "true"
           /\ reqs[i].resp.uid.kind = "user_"
           /\ reqs[i].resp.token.kind = "mock_token_"
           /\ reqs[i].calls = <<>>

\* The fields a stored record has: updatedAt only once an update stamped it.
FieldsOf(rec) ==
    {f \in DOMAIN rec : f = "updatedAt" => rec.updatedAt # NoTime}

\* The store applies the update of request i in this step.
UpdateApplied(i) ==
    /\ reqs[i].op = "updateUser"
    /\ reqs[i].pc = "users.update"
    /\ reqs'[i].pc = "users.get"

\* C7 as claimed: an Update user request, whatever its body names, leaves the
\* record's uid, email and createdAt as registration wrote them, and every
\* field of the record that the body does not name keeps its stored value.
C7_UnnamedFieldsKept ==
    [][\A i \in Slots :
        UpdateApplied(i)
        => LET u == reqs[i].userId
           IN /\ users'[u].uid = u
              /\ users'[u].email = authUsers[u].email
              /\ users'[u].createdAt = users[u].createdAt
              /\ \A f \in FieldsOf(users[u]) \ reqs[i].body :
                    users'[u][f] = users[u][f]]_vars

\* C7 amended: uid, email and createdAt stay as registration wrote them;
\* updatedAt becomes the time of the request; every other field that the
\* body does not name keeps its stored value, and a named one takes the
\* body's value.
C7_ProtectedKeptOthersMerged ==
    [][\A i \in Slots :
        UpdateApplied(i)
        => LET u == reqs[i].userId
           IN /\ users'[u].uid = u
              /\ users'[u].email = authUsers[u].email
              /\ users'[u].createdAt = users[u].createdAt
              /\ users'[u].updatedAt = reqs[i].ts
              /\ \A f \in DOMAIN users[u] \ (reqs[i].body \cup {"updatedAt"}) :
                    users'[u][f] = users[u][f]
              /\ \A f \in reqs[i].body \ {"uid", "email", "createdAt"} :
                    users'[u][f] = BodyValue[f]]_vars

C7_Witness ==
    \E i \in Slots :
        /\ reqs[i].op = "updateUser"
        /\ reqs[i].pc = "done"
        /\ reqs[i].resp.status = 200
        /\ {"uid", "email", "createdAt", "name"} \subseteq reqs[i].body
        /\ users[reqs[i].userId].name = BodyValue.name
        /\ users[reqs[i].userId].email = "a@x"

\* C8 as claimed: every response of every endpoint carries a boolean
\* success field together with a result payload or an error string.
C8_EveryResponseHasSuccess ==
    \A i \in Slots :
        reqs[i].pc = "done"
        => /\ reqs[i].resp.success \in {"true", "false"}
           /\ reqs[i].resp.payload # {} \/ reqs[i].resp.error # NoError

\* C8 amended: every response of every endpoint other than the health check
\* carries success=true with a result payload or success=false with an error
\* string; the health check's response carries a status string and a payload
\* and no success field.
C8_SuccessExceptHealthCheck ==
    \A i \in Slots :
        reqs[i].pc = "done"
        => IF reqs[i].op = "health"
           THEN reqs[i].resp.success = "absent" /\ "status" \in reqs[i].resp.payload
           ELSE \/ reqs[i].resp.success = "true" /\ reqs[i].resp.payload # {}
                \/ reqs[i].resp.success = "false" /\ reqs[i].resp.error # NoError

C8_Witness ==
    \E i \in Slots :
        /\ reqs[i].pc = "done"
        /\ reqs[i].op = "createProject"
        /\ reqs[i].failedCall = "projects.set"
        /\ reqs[i].resp.success = "false"
        /\ reqs[i].resp.error # NoError

\* C9: when, in a Create project for an existing user, the project write
\* succeeds and the user update fails, the answer is 500 with the error
\* 'Failed to create project', the project record stays in the projects
\* collection, the user's totalProjects and projects list are unchanged, and
\* each of the three calls was made once.
C9_FailedUpdateLeavesProject ==
    [][\A i \in Slots :
        (/\ reqs[i].op = "createProject"
         /\ reqs[i].pc = "users.update"
         /\ AnsweredNow(i)
         /\ reqs'[i].failedCall = "users.update")
        => /\ reqs'[i].resp.status = 500
           /\ reqs'[i].resp.success = "false"
           /\ reqs'[i].resp.error = "Failed to create project"
           /\ reqs[i].ts \in DOMAIN projects'
           /\ projects' = projects
           /\ users' = users
           /\ reqs'[i].calls = <<"users.get", "projects.set", "users.update">>]_vars

C9_Witness ==
    \E i \in Slots :
        /\ reqs[i].op = "createProject"
        /\ reqs[i].pc = "done"
        /\ reqs[i].failedCall = "users.update"
        /\ reqs[i].resp.status = 500
        /\ reqs[i].ts \in DOMAIN projects
        /\ reqs[i].ts \notin Range(users[reqs[i].userId].projects)
        /\ users[reqs[i].userId].totalProjects = 0

====
